---- MODULE Spec2Model ----
(***************************************************************************)
(* A model of the ULWGL launcher (ULWGL/ulwgl_run.py): the resolver        *)
(* (check_env / set_env), the prefix reconciler (setup_pfx), the command   *)
(* builder (build_command) and the process supervisor (main, stop_unit and *)
(* the top-level try/except/finally block).                                *)
(*                                                                         *)
(* Spec        is one launcher run, from parse_args to process termination.*)
(* PfxSpec     is setup_pfx called on every prefix topology, run after run.*)
(* ResolveSpec is check_env to build_command on every explicit input.      *)
(***************************************************************************)
EXTENDS Integers, Sequences, FiniteSets, TLC

VARIABLES
    pc,            \* position of the launcher process
    args,          \* what parse_args returned: "exe" tuple or "config" Namespace
    environ,       \* os.environ, the keys the launcher reads or writes
    env,           \* the env dictionary of main
    config,        \* the TOML document of main (NoConfig when None)
    opts,          \* passthrough options
    command,       \* the command vector
    subreaper,     \* the wrapper build_command applied
    ret,           \* <<returncode>> of the wrapped process, <<>> before it exits
    exc,           \* the exception in flight
    exitStatus,    \* <<exit status>> of the launcher process, <<>> while it runs
    refExists,     \* whether ULWGL_LOCAL/.ref exists
    localState,    \* ULWGL_LOCAL: "empty", "partial" (files, no entry point) or "populated"
    fs,            \* the prefix directory: pfx, tracked_files, drive_c/users
    user,          \* UnixUser.get_user()
    protonCalls,   \* get_ulwgl_proton invocations
    runs,          \* number of the current run over the same prefix
    pre,           \* the prefix directory before the last setup_pfx call
    branches,      \* identity branch taken by each successful setup_pfx call
    listing,       \* last output of systemctl list-units
    listCalls,     \* systemctl list-units calls issued
    stopCalls,     \* units given to systemctl stop, in order
    stopUnitCalls, \* stop_unit invocations
    trace          \* top-level clauses the run went through, in order

vars == <<pc, args, environ, env, config, opts, command, subreaper, ret, exc,
          exitStatus, refExists, localState, fs, user, protonCalls, runs, pre, branches,
          listing, listCalls, stopCalls, stopUnitCalls, trace>>

---------------------------------------------------------------------------
(* Bounds *)

MaxRet == 3
MaxUnits == 2
MaxRuns == 2
MaxOpts == 1
MaxArgs == 2

---------------------------------------------------------------------------
(* Values *)

Unset == "<unset>"
None == "<None>"

SteamUser == "steamuser"
Users == {"steamuser", "alice"}
Names == Users \cup {"other"}

Home == "/home/alice"

ExpandUser(p) ==
    IF p = "~/prefix" THEN Home \o "/prefix"
    ELSE IF p = "~/game.exe" THEN Home \o "/game.exe"
    ELSE p

---------------------------------------------------------------------------
(* The prefix directory *)

Absent == [kind |-> "absent", target |-> ""]
File == [kind |-> "file", target |-> ""]
Dir == [kind |-> "dir", target |-> ""]
Link(t) == [kind |-> "link", target |-> t]

RECURSIVE Resolve(_, _, _)
Resolve(users, n, hops) ==
    IF users[n].kind # "link" THEN users[n].kind
    ELSE IF hops = 0 \/ users[n].target \notin DOMAIN users THEN "absent"
    ELSE Resolve(users, users[n].target, hops - 1)

is_dir(users, n) == Resolve(users, n, Cardinality(DOMAIN users)) = "dir"
exists(users, n) == Resolve(users, n, Cardinality(DOMAIN users)) \in {"dir", "file"}
is_symlink(users, n) == users[n].kind = "link"

mkdir(r, n) ==
    IF ~r.ok THEN r
    ELSE IF r.users[n].kind = "absent"
         THEN [r EXCEPT !.users = [r.users EXCEPT ![n] = Dir]]
         ELSE [r EXCEPT !.ok = FALSE]

unlink(r, n) ==
    IF ~r.ok THEN r
    ELSE IF r.users[n].kind = "dir" THEN [r EXCEPT !.ok = FALSE]
    ELSE [r EXCEPT !.users = [r.users EXCEPT ![n] = Absent]]

symlink_to(r, n, t) ==
    IF ~r.ok THEN r
    ELSE IF r.users[n].kind = "absent"
         THEN [r EXCEPT !.users = [r.users EXCEPT ![n] = Link(t)]]
         ELSE [r EXCEPT !.ok = FALSE]

PfxIsDir(p) == p.kind = "dir"

PfxLinkBuggy(f, path) ==
    [ok |-> f.pfx.kind # "file",
     pfx |-> IF f.pfx.kind = "absent" THEN Link(ExpandUser(path)) ELSE f.pfx]

PfxLink(f, path) ==
    LET p1 == IF f.pfx.kind = "link" THEN Absent ELSE f.pfx
    IN  IF ~PfxIsDir(p1)
        THEN IF p1.kind = "absent"
             THEN [ok |-> TRUE, pfx |-> Link(ExpandUser(path))]
             ELSE [ok |-> FALSE, pfx |-> p1]
        ELSE [ok |-> TRUE, pfx |-> p1]

touch(t) == IF t = "absent" THEN "file" ELSE t

IdentityBranchBuggy(users, u) ==
    IF /\ ~is_dir(users, u)
       /\ ~is_dir(users, SteamUser)
       /\ ~(is_symlink(users, u) \/ is_symlink(users, SteamUser))
    THEN "a"
    ELSE IF is_dir(users, u) /\ ~is_symlink(users, SteamUser)
    THEN "b"
    ELSE IF ~exists(users, u) /\ ~is_symlink(users, u) /\ is_dir(users, SteamUser)
    THEN "c"
    ELSE "d"

IdentityBranch(users, u) ==
    IF /\ ~is_dir(users, u)
       /\ ~is_dir(users, SteamUser)
       /\ ~(is_symlink(users, u) \/ is_symlink(users, SteamUser))
    THEN "a"
    ELSE IF is_dir(users, u) /\ ~is_dir(users, SteamUser) /\ ~is_symlink(users, SteamUser)
    THEN "b"
    ELSE IF ~exists(users, u) /\ ~is_symlink(users, u) /\ is_dir(users, SteamUser)
    THEN "c"
    ELSE "d"

ReconcileFresh(users, u) ==
    symlink_to(unlink(mkdir([ok |-> TRUE, users |-> users], SteamUser), u), u, "steamuser")

ReconcileBuggy(users, u) ==
    LET b == IdentityBranch(users, u)
        r0 == [ok |-> TRUE, users |-> users]
    IN  IF b = "a" THEN ReconcileFresh(users, u)
        ELSE IF b = "b" THEN symlink_to(unlink(r0, SteamUser), SteamUser, "steamuser")
        ELSE IF b = "c" THEN symlink_to(unlink(r0, u), u, "steamuser")
        ELSE r0

ReconcileNoUnlink(users, u) ==
    LET b == IdentityBranch(users, u)
        r0 == [ok |-> TRUE, users |-> users]
    IN  IF b = "a" THEN ReconcileFresh(users, u)
        ELSE IF b = "b" THEN symlink_to(r0, SteamUser, u)
        ELSE IF b = "c" THEN symlink_to(unlink(r0, u), u, "steamuser")
        ELSE r0

Reconcile(users, u) ==
    LET b == IdentityBranch(users, u)
        r0 == [ok |-> TRUE, users |-> users]
    IN  IF b = "a" THEN ReconcileFresh(users, u)
        ELSE IF b = "b" THEN symlink_to(unlink(r0, SteamUser), SteamUser, u)
        ELSE IF b = "c" THEN symlink_to(unlink(r0, u), u, "steamuser")
        ELSE r0

setup_pfx(f, path, u) ==
    LET l == PfxLink(f, path)
        r == Reconcile(f.users, u)
    IN  IF ~l.ok
        THEN [ok |-> FALSE, branch |-> None, fs |-> f]
        ELSE [ok |-> r.ok,
              branch |-> IdentityBranch(f.users, u),
              fs |-> [pfx |-> l.pfx, tracked |-> touch(f.tracked), users |-> r.users]]

---------------------------------------------------------------------------
(* The environment and the inputs of one run *)

EnvKeys == {"GAMEID", "WINEPREFIX", "PROTONPATH", "PROTON_VERB", "EXE",
            "ULWGL_ID", "ULWGL_SYSTEMD", "ULWGL_GAMESCOPE"}

PROTON_VERBS == {"waitforexitandrun", "run", "runinprefix", "destroyprefix",
                 "getcompatpath", "getnativepath"}

ULWGL_LOCAL == Home \o "/.local/share/ULWGL"

NoConfig == [present |-> FALSE, reaper |-> None, game_id |-> Unset]

\* Truthiness of config.get("ulwgl").get("reaper"): None when the key is not set.
Truthy(v) == v = "true"

InitialEnv ==
    [k \in EnvKeys |-> IF k = "ULWGL_GAMESCOPE" THEN Unset ELSE ""]

GameIds == {"271590", "ulwgl-271590"}

OptSeqs == UNION {[1..n -> {"-opengl"}] : n \in 0..MaxOpts}

Descriptions == {"ulwgl-" \o g : g \in GameIds} \cup {"dbus.service"}

UnitName(i) == "unit" \o ToString(i) \o ".scope"

Listings ==
    {[i \in DOMAIN ds |-> [description |-> ds[i], unit |-> UnitName(i)]] :
        ds \in UNION {[1..n -> Descriptions] : n \in 0..MaxUnits}}

NoExc == [type |-> "none", code |-> 0, msg |-> FALSE, name |-> ""]
SystemExit(code) == [type |-> "SystemExit", code |-> code, msg |-> FALSE, name |-> ""]
SystemExitMsg == [type |-> "SystemExit", code |-> 1, msg |-> TRUE, name |-> ""]
Exception == [type |-> "Exception", code |-> 1, msg |-> FALSE, name |-> ""]
KeyboardInterrupt == [type |-> "KeyboardInterrupt", code |-> 130, msg |-> FALSE, name |-> ""]

\* The errors of check_env and build_command, told apart by their messages.
MissingRequiredValue == [Exception EXCEPT !.name = "ValueError: GAMEID"]
RuntimeNotFound == [Exception EXCEPT !.name = "FileNotFoundError: Download failed"]
EntryPointNotFound == [Exception EXCEPT !.name = "FileNotFoundError: _v2-entry-point"]
RuntimeBinaryNotFound == [Exception EXCEPT !.name = "FileNotFoundError: proton"]

\* os.environ with the variables the launcher reads set to the given values.
Environ(g, w, p, v, sd, gs) ==
    [k \in EnvKeys |->
        IF k = "GAMEID" THEN g
        ELSE IF k = "WINEPREFIX" THEN w
        ELSE IF k = "PROTONPATH" THEN p
        ELSE IF k = "PROTON_VERB" THEN v
        ELSE IF k = "ULWGL_SYSTEMD" THEN sd
        ELSE IF k = "ULWGL_GAMESCOPE" THEN gs
        ELSE Unset]

FreshPrefix ==
    [pfx |-> Absent, tracked |-> "absent", users |-> [n \in Names |-> Absent]]

Init ==
    /\ pc = "parse_args"
    /\ args = [kind |-> None, exe |-> "", opts |-> <<>>, verb |-> None]
    /\ \/ /\ environ \in {Environ(g, w, p, Unset, sd, gs) :
                    g \in GameIds \cup {Unset}, w \in {Unset, "~/prefix"},
                    p \in {Unset, "/opt/proton"},
                    sd \in {Unset, "1", "0"}, gs \in {Unset, "1", "0"}}
          /\ localState \in {"empty", "populated"}
       \/ /\ environ \in {Environ("271590", "~/prefix", p, Unset, Unset, Unset) :
                    p \in {"/opt/proton", "/opt/empty"}}
          /\ localState = "partial"
       \/ /\ environ = Environ("271590", "~/prefix", "/opt/empty", Unset, Unset, Unset)
          /\ localState = "populated"
    /\ env = InitialEnv
    /\ config = NoConfig
    /\ opts = <<>>
    /\ command = <<>>
    /\ subreaper = None
    /\ ret = <<>>
    /\ exc = NoExc
    /\ exitStatus = <<>>
    /\ refExists \in BOOLEAN
    /\ fs = FreshPrefix
    /\ user \in Users
    /\ protonCalls = 0
    /\ runs = 1
    /\ pre = FreshPrefix
    /\ branches = <<>>
    /\ listing = <<>>
    /\ listCalls = 0
    /\ stopCalls = <<>>
    /\ stopUnitCalls = 0
    /\ trace = <<>>

Raise(e) == /\ exc' = e
            /\ pc' = "except"

---------------------------------------------------------------------------
(* main *)

ParseArgs ==
    /\ pc = "parse_args"
    /\ \E kind \in {"none", "help", "config", "exe"}, exe \in {"", "~/game.exe"},
          o \in OptSeqs, verb \in {None, "run"}, musl \in BOOLEAN :
        /\ kind # "exe" => (exe = "" /\ o = <<>> /\ verb = None)
        /\ kind \in {"none", "help"} => ~musl
        /\ args' = [kind |-> kind, exe |-> exe, opts |-> o, verb |-> verb]
        /\ environ' = IF kind = "exe" /\ verb # None /\ environ["PROTON_VERB"] = Unset
                      THEN [environ EXCEPT !["PROTON_VERB"] = verb]
                      ELSE environ
        /\ IF kind = "none" \/ musl THEN Raise(SystemExitMsg)
           ELSE IF kind = "help" THEN Raise(SystemExit(0))
           ELSE /\ pc' = "setup_ulwgl"
                /\ exc' = exc
    /\ UNCHANGED <<env, config, opts, command, subreaper, ret, exitStatus, refExists,
                   localState, fs, user, protonCalls, runs, pre, branches, listing, listCalls,
                   stopCalls, stopUnitCalls, trace>>

SetupUlwgl ==
    /\ pc = "setup_ulwgl"
    /\ \E outcome \in {"ok", "TimeoutError", "ENETUNREACH", "OSError"}, ref \in BOOLEAN :
        /\ outcome # "ok" => ref = refExists
        /\ refExists' = ref
        /\ IF outcome = "ok"
           THEN /\ localState' = "populated"
                /\ pc' = "check_env"
                /\ exc' = exc
           ELSE /\ localState' = localState
                /\ IF localState = "empty" \/ outcome = "OSError"
                   THEN Raise(Exception)
                   ELSE /\ pc' = "check_env"
                        /\ exc' = exc
    /\ UNCHANGED <<args, environ, env, config, opts, command, subreaper, ret, exitStatus,
                   fs, user, protonCalls, runs, pre, branches, listing, listCalls, stopCalls,
                   stopUnitCalls, trace>>

DefaultPrefix(id) == Home \o "/Games/ULWGL/ulwgl-" \o id

STEAM_COMPAT == Home \o "/.local/share/Steam/compatibilitytools.d"

\* Names of the directories that exist under STEAM_COMPAT.
CacheNames == {"GE-Proton"}

\* The directories that hold a proton binary, and every directory there is.
ProtonDirs == {"/opt/proton", STEAM_COMPAT \o "/GE-Proton", STEAM_COMPAT \o "/ULWGL-Proton"}
Dirs == ProtonDirs \cup {"/opt/empty"}

\* PROTONPATH in os.environ after the resolution of check_env; got is what
\* get_ulwgl_proton leaves there when it is called.
ProtonPath(p, got) ==
    LET p1 == IF p # Unset /\ p # "" /\ p \in CacheNames
              THEN STEAM_COMPAT \o "/" \o p
              ELSE p
    IN  IF p1 = Unset THEN got ELSE p1

CheckEnv ==
    /\ pc = "check_env"
    /\ args.kind = "exe"
    /\ opts' = args.opts
    /\ IF environ["GAMEID"] = Unset
       THEN /\ Raise(MissingRequiredValue)
            /\ UNCHANGED <<environ, env, protonCalls>>
       ELSE \E got \in {"", STEAM_COMPAT \o "/ULWGL-Proton"} :
            LET e1 == IF environ["WINEPREFIX"] = Unset
                      THEN [environ EXCEPT !["WINEPREFIX"] = DefaultPrefix(environ["GAMEID"])]
                      ELSE environ
                e2 == [e1 EXCEPT !["PROTONPATH"] = ProtonPath(@, got)]
            IN  /\ (environ["PROTONPATH"] # Unset => got = "")
                /\ protonCalls' = IF environ["PROTONPATH"] = Unset
                                  THEN protonCalls + 1 ELSE protonCalls
                /\ environ' = e2
                /\ env' = [env EXCEPT !["GAMEID"] = e2["GAMEID"],
                                      !["WINEPREFIX"] = e2["WINEPREFIX"],
                                      !["PROTONPATH"] = e2["PROTONPATH"]]
                /\ IF e2["PROTONPATH"] = ""
                   THEN Raise(RuntimeNotFound)
                   ELSE /\ pc' = "setup_pfx"
                        /\ exc' = exc
    /\ UNCHANGED <<args, config, command, subreaper, ret, exitStatus, refExists,
                   localState, fs, user, runs, pre, branches, listing, listCalls,
                   stopCalls, stopUnitCalls, trace>>

SetEnvToml ==
    /\ pc = "check_env"
    /\ args.kind = "config"
    /\ \E valid \in BOOLEAN, reaper \in {None, "true", "false"}, gid \in {Unset, "271590"},
          o \in OptSeqs :
        /\ ~valid => (reaper = None /\ gid = Unset /\ o = <<>>)
        /\ IF ~valid
           THEN /\ Raise(Exception)
                /\ UNCHANGED <<env, opts, config>>
           ELSE /\ env' = [env EXCEPT !["WINEPREFIX"] = "~/prefix",
                                      !["PROTONPATH"] = "/opt/proton",
                                      !["EXE"] = "~/game.exe",
                                      !["GAMEID"] = IF gid = Unset THEN @ ELSE gid]
                /\ opts' = o
                /\ config' = [present |-> TRUE, reaper |-> reaper, game_id |-> gid]
                /\ pc' = "setup_pfx"
                /\ exc' = exc
    /\ UNCHANGED <<args, environ, command, subreaper, ret, exitStatus, refExists,
                   localState, fs, user, protonCalls, runs, pre, branches, listing, listCalls,
                   stopCalls, stopUnitCalls, trace>>

SetupPfx ==
    /\ pc = "setup_pfx"
    /\ LET r == setup_pfx(fs, env["WINEPREFIX"], user)
       IN  /\ pre' = fs
           /\ fs' = r.fs
           /\ IF r.ok
              THEN /\ branches' = Append(branches, r.branch)
                   /\ pc' = "set_env"
                   /\ exc' = exc
              ELSE /\ branches' = branches
                   /\ Raise(Exception)
    /\ UNCHANGED <<args, environ, env, config, opts, command, subreaper, ret, exitStatus,
                   refExists, localState, user, protonCalls, runs, listing, listCalls, stopCalls,
                   stopUnitCalls, trace>>

set_env(e, a, osenv) ==
    LET verb == IF osenv["PROTON_VERB"] # Unset /\ osenv["PROTON_VERB"] \in PROTON_VERBS
                THEN osenv["PROTON_VERB"]
                ELSE "waitforexitandrun"
        e1 == IF a.kind = "exe" /\ a.exe = ""
              THEN [e EXCEPT !["EXE"] = "", !["PROTON_VERB"] = "waitforexitandrun"]
              ELSE IF a.kind = "exe"
              THEN [e EXCEPT !["EXE"] = ExpandUser(a.exe), !["PROTON_VERB"] = verb]
              ELSE [e EXCEPT !["EXE"] = ExpandUser(e["EXE"]), !["PROTON_VERB"] = verb]
    IN  [e1 EXCEPT !["ULWGL_ID"] = e["GAMEID"],
                   !["WINEPREFIX"] = ExpandUser(e["WINEPREFIX"]),
                   !["PROTONPATH"] = ExpandUser(e["PROTONPATH"]),
                   !["ULWGL_GAMESCOPE"] = IF osenv["ULWGL_GAMESCOPE"] # Unset
                                          THEN osenv["ULWGL_GAMESCOPE"] ELSE @,
                   !["ULWGL_SYSTEMD"] = IF osenv["ULWGL_SYSTEMD"] # Unset
                                        THEN osenv["ULWGL_SYSTEMD"] ELSE @]

SetEnv ==
    /\ pc = "set_env"
    /\ env' = set_env(env, args, environ)
    /\ environ' = [k \in EnvKeys |-> IF env'[k] # Unset THEN env'[k] ELSE environ[k]]
    /\ pc' = "build_command"
    /\ UNCHANGED <<args, config, opts, command, subreaper, ret, exc, exitStatus,
                   refExists, localState, fs, user, protonCalls, runs, pre, branches, listing,
                   listCalls, stopCalls, stopUnitCalls, trace>>

---------------------------------------------------------------------------
(* build_command *)

ConfigDisablesReaper(c) ==
    c.present /\ Truthy(c.reaper) /\ ~Truthy(c.reaper)

SubreaperChoice(c, e) ==
    IF ConfigDisablesReaper(c) THEN "systemd"
    ELSE IF e["ULWGL_SYSTEMD"] = "1" THEN "systemd"
    ELSE "reaper"

enable_systemd(e, cmd) == cmd \o <<"systemd-run">>

enable_reaper(e, cmd, local) == cmd \o <<local \o "/reaper">>

build_commandBuggy(e, local, cmd, o, c) ==
    LET verb == e["PROTON_VERB"]
        entry == cmd \o <<local \o "/ULWGL", "--verb", verb, "--">>
        wrapped == IF SubreaperChoice(c, e) = "systemd"
                   THEN enable_systemd(e, entry)
                   ELSE enable_reaper(e, entry, local)
    IN  wrapped \o <<e["PROTONPATH"] \o "/proton", verb, e["EXE"]>> \o o

build_command(e, local, cmd, o, c) ==
    LET verb == e["PROTON_VERB"]
        wrapped == IF SubreaperChoice(c, e) = "systemd"
                   THEN enable_systemd(e, cmd)
                   ELSE enable_reaper(e, cmd, local)
    IN  wrapped \o <<local \o "/ULWGL", "--verb", verb, "--">>
                \o <<e["PROTONPATH"] \o "/proton", verb, e["EXE"]>>
                \o o

\* The error build_command raises before it touches the command, NoExc when
\* both files are there.
BuildErrorSwapped(e, local) ==
    IF e["PROTONPATH"] \notin ProtonDirs THEN RuntimeBinaryNotFound
    ELSE IF local # "populated" THEN EntryPointNotFound
    ELSE NoExc

BuildError(e, local) ==
    IF local # "populated" THEN EntryPointNotFound
    ELSE IF e["PROTONPATH"] \notin ProtonDirs THEN RuntimeBinaryNotFound
    ELSE NoExc

BuildCommand ==
    /\ pc = "build_command"
    /\ IF BuildError(env, localState) # NoExc
       THEN /\ Raise(BuildError(env, localState))
            /\ UNCHANGED <<command, subreaper>>
       ELSE /\ command' = build_command(env, ULWGL_LOCAL, command, opts, config)
            /\ subreaper' = SubreaperChoice(config, env)
            /\ pc' = "run"
            /\ exc' = exc
    /\ UNCHANGED <<args, environ, env, config, opts, ret, exitStatus, refExists,
                   localState, fs, user, protonCalls, runs, pre, branches, listing, listCalls,
                   stopCalls, stopUnitCalls, trace>>

---------------------------------------------------------------------------
(* The wrapped process *)

StartChild ==
    /\ pc = "run"
    /\ \E started \in BOOLEAN :
        IF started
        THEN /\ pc' = "child"
             /\ exc' = exc
        ELSE Raise(Exception)
    /\ UNCHANGED <<args, environ, env, config, opts, command, subreaper, ret, exitStatus,
                   refExists, localState, fs, user, protonCalls, runs, pre, branches, listing,
                   listCalls, stopCalls, stopUnitCalls, trace>>

ChildExit ==
    /\ pc = "child"
    /\ \E r \in 0..MaxRet : ret' = <<r>>
    /\ pc' = "after_main"
    /\ UNCHANGED <<args, environ, env, config, opts, command, subreaper, exc, exitStatus,
                   refExists, localState, fs, user, protonCalls, runs, pre, branches, listing,
                   listCalls, stopCalls, stopUnitCalls, trace>>

MainPcs == {"parse_args", "setup_ulwgl", "check_env", "setup_pfx", "set_env",
            "build_command", "run", "child"}

Interrupt ==
    /\ pc \in MainPcs
    /\ trace' = Append(trace, "KeyboardInterrupt@" \o pc)
    /\ Raise(KeyboardInterrupt)
    /\ UNCHANGED <<args, environ, env, config, opts, command, subreaper, ret, exitStatus,
                   refExists, localState, fs, user, protonCalls, runs, pre, branches, listing,
                   listCalls, stopCalls, stopUnitCalls>>

---------------------------------------------------------------------------
(* stop_unit *)

FirstMatchBuggy(lst, d) ==
    LET m == {i \in DOMAIN lst : lst[i].description = d}
    IN  IF m = {} THEN "" ELSE lst[CHOOSE i \in m : \A j \in m : i >= j].unit

FirstMatch(lst, d) ==
    LET m == {i \in DOMAIN lst : lst[i].description = d}
    IN  IF m = {} THEN "" ELSE lst[CHOOSE i \in m : \A j \in m : i <= j].unit

stop_unit(osenv, id, lst, listOk) ==
    IF osenv["ULWGL_SYSTEMD"] = Unset
    THEN [raised |-> TRUE, listed |-> FALSE, stops |-> <<>>]
    ELSE IF osenv["ULWGL_SYSTEMD"] # "1" /\ osenv["ULWGL_GAMESCOPE"] = Unset
    THEN [raised |-> TRUE, listed |-> FALSE, stops |-> <<>>]
    ELSE IF osenv["ULWGL_SYSTEMD"] # "1" /\ osenv["ULWGL_GAMESCOPE"] = "1"
    THEN [raised |-> FALSE, listed |-> FALSE, stops |-> <<>>]
    ELSE IF ~listOk
    THEN [raised |-> TRUE, listed |-> TRUE, stops |-> <<>>]
    ELSE LET unit == FirstMatch(lst, "ulwgl-" \o id)
         IN  [raised |-> FALSE, listed |-> TRUE,
              stops |-> IF unit # "" THEN <<unit>> ELSE <<>>]

\* The statement stop_unit(os.environ["ULWGL_ID"]): what it raises and what it did.
Teardown(osenv, lst, listOk, intr) ==
    IF osenv["ULWGL_ID"] = Unset
    THEN [raised |-> "Exception", called |-> FALSE, listed |-> FALSE, stops |-> <<>>]
    ELSE IF intr
    THEN [raised |-> "KeyboardInterrupt", called |-> TRUE, listed |-> FALSE, stops |-> <<>>]
    ELSE LET r == stop_unit(osenv, osenv["ULWGL_ID"], lst, listOk)
         IN  [raised |-> IF r.raised THEN "Exception" ELSE "none", called |-> TRUE,
              listed |-> r.listed, stops |-> r.stops]

\* What a stop_unit call that did not return leaves in the trace.
Fault(t) ==
    IF t.raised = "KeyboardInterrupt" THEN <<"KeyboardInterrupt@stop_unit">>
    ELSE IF t.raised = "Exception" /\ t.listed THEN <<"systemctl failed">>
    ELSE <<>>

Record(t, lst) ==
    /\ stopUnitCalls' = stopUnitCalls + (IF t.called THEN 1 ELSE 0)
    /\ listCalls' = listCalls + (IF t.listed THEN 1 ELSE 0)
    /\ listing' = IF t.listed THEN lst ELSE listing
    /\ stopCalls' = stopCalls \o t.stops

---------------------------------------------------------------------------
(* The top-level block *)

AfterMain ==
    /\ pc = "after_main"
    /\ pc' = "except"
    /\ IF ret[1] = 0
       THEN \E lst \in Listings, listOk \in BOOLEAN, intr \in BOOLEAN :
            LET t == Teardown(environ, lst, listOk, intr)
            IN  /\ Record(t, lst)
                /\ exc' = IF t.raised = "none" THEN SystemExit(ret[1])
                          ELSE IF t.raised = "Exception" THEN Exception
                          ELSE KeyboardInterrupt
                /\ trace' = trace \o Fault(t)
       ELSE /\ exc' = SystemExit(ret[1])
            /\ UNCHANGED <<listing, listCalls, stopCalls, stopUnitCalls, trace>>
    /\ UNCHANGED <<args, environ, env, config, opts, command, subreaper, ret, exitStatus,
                   refExists, localState, fs, user, protonCalls, runs, pre, branches>>

HandleKeyboardInterruptBuggy ==
    /\ pc = "except"
    /\ exc.type = "KeyboardInterrupt"
    /\ pc' = "finally"
    /\ \E lst \in Listings, listOk \in BOOLEAN, intr \in BOOLEAN :
        LET t == Teardown(environ, lst, listOk, intr)
        IN  /\ Record(t, lst)
            /\ exc' = IF t.raised = "none" THEN NoExc
                      ELSE IF t.raised = "Exception" THEN Exception
                      ELSE KeyboardInterrupt
            /\ trace' = Append(trace, "except KeyboardInterrupt") \o Fault(t)
    /\ UNCHANGED <<args, environ, env, config, opts, command, subreaper, ret, exitStatus,
                   refExists, localState, fs, user, protonCalls, runs, pre, branches>>

HandleKeyboardInterrupt ==
    /\ pc = "except"
    /\ exc.type = "KeyboardInterrupt"
    /\ pc' = "finally"
    /\ \E lst \in Listings, listOk \in BOOLEAN, intr \in BOOLEAN :
        LET t == Teardown(environ, lst, listOk, intr)
        IN  /\ Record(t, lst)
            /\ exc' = IF t.raised = "none" THEN SystemExit(1)
                      ELSE IF t.raised = "Exception" THEN Exception
                      ELSE KeyboardInterrupt
            /\ trace' = Append(trace, "except KeyboardInterrupt") \o Fault(t)
    /\ UNCHANGED <<args, environ, env, config, opts, command, subreaper, ret, exitStatus,
                   refExists, localState, fs, user, protonCalls, runs, pre, branches>>

HandleSystemExit ==
    /\ pc = "except"
    /\ exc.type = "SystemExit"
    /\ pc' = "finally"
    /\ exc' = IF exc.msg \/ exc.code # 0 THEN Exception ELSE NoExc
    /\ trace' = Append(trace, "except SystemExit")
    /\ UNCHANGED <<args, environ, env, config, opts, command, subreaper, ret, exitStatus,
                   refExists, localState, fs, user, protonCalls, runs, pre, branches, listing,
                   listCalls, stopCalls, stopUnitCalls>>

HandleException ==
    /\ pc = "except"
    /\ exc.type = "Exception"
    /\ pc' = "finally"
    /\ exc' = SystemExit(1)
    /\ trace' = Append(trace, "except Exception")
    /\ UNCHANGED <<args, environ, env, config, opts, command, subreaper, ret, exitStatus,
                   refExists, localState, fs, user, protonCalls, runs, pre, branches, listing,
                   listCalls, stopCalls, stopUnitCalls>>

\* Exit status of the interpreter for the exception that leaves the script.
ExitStatusOf(e) ==
    IF e.type = "none" THEN 0
    ELSE IF e.type = "SystemExit" THEN (IF e.msg THEN 1 ELSE e.code % 256)
    ELSE IF e.type = "KeyboardInterrupt" THEN 130
    ELSE 1

FinallyBuggy ==
    /\ pc = "finally"
    /\ refExists' = IF exc.type = "Exception" THEN refExists ELSE FALSE
    /\ exitStatus' = <<ExitStatusOf(exc)>>
    /\ pc' = "done"
    /\ trace' = Append(trace, IF refExists THEN "finally: unlink .ref" ELSE "finally")
    /\ UNCHANGED <<args, environ, env, config, opts, command, subreaper, ret, exc,
                   localState, fs, user, protonCalls, runs, pre, branches, listing, listCalls,
                   stopCalls, stopUnitCalls>>

Finally ==
    /\ pc = "finally"
    /\ refExists' = FALSE
    /\ exitStatus' = <<ExitStatusOf(exc)>>
    /\ pc' = "done"
    /\ trace' = Append(trace, IF refExists THEN "finally: unlink .ref" ELSE "finally")
    /\ UNCHANGED <<args, environ, env, config, opts, command, subreaper, ret, exc,
                   localState, fs, user, protonCalls, runs, pre, branches, listing, listCalls,
                   stopCalls, stopUnitCalls>>

Next ==
    \/ ParseArgs
    \/ SetupUlwgl
    \/ CheckEnv
    \/ SetEnvToml
    \/ SetupPfx
    \/ SetEnv
    \/ BuildCommand
    \/ StartChild
    \/ ChildExit
    \/ Interrupt
    \/ AfterMain
    \/ HandleKeyboardInterrupt
    \/ HandleSystemExit
    \/ HandleException
    \/ Finally

Spec == Init /\ [][Next]_vars

---------------------------------------------------------------------------
(* The prefix reconciler on every topology, run after run *)

IdentityEntries(n) == {Absent, File, Dir} \cup {Link(t) : t \in Names \ {n}}

Topologies ==
    {[pfx |-> p, tracked |-> t, users |-> u] :
        p \in {Absent, File, Dir, Link(Home \o "/prefix"), Link("/mnt/old/prefix")},
        t \in {"absent", "file"},
        u \in {us \in [Names -> {Absent, File, Dir} \cup {Link(t) : t \in Names}] :
                  /\ \A n \in Users : us[n] \in IdentityEntries(n)
                  /\ us["other"] \in {Absent, File, Dir}}}

PfxInit ==
    /\ pc = "setup_pfx"
    /\ args = [kind |-> "exe", exe |-> "~/game.exe", opts |-> <<>>, verb |-> None]
    /\ environ = [k \in EnvKeys |->
                    IF k = "GAMEID" THEN "271590"
                    ELSE IF k = "WINEPREFIX" THEN "~/prefix"
                    ELSE IF k = "PROTONPATH" THEN "/opt/proton"
                    ELSE Unset]
    /\ env = [InitialEnv EXCEPT !["GAMEID"] = "271590",
                                !["WINEPREFIX"] = "~/prefix",
                                !["PROTONPATH"] = "/opt/proton"]
    /\ config = NoConfig
    /\ opts = <<>>
    /\ command = <<>>
    /\ subreaper = None
    /\ ret = <<>>
    /\ exc = NoExc
    /\ exitStatus = <<>>
    /\ refExists = FALSE
    /\ localState = "populated"
    /\ fs \in Topologies
    /\ user \in Users
    /\ protonCalls = 0
    /\ runs = 1
    /\ pre = fs
    /\ branches = <<>>
    /\ listing = <<>>
    /\ listCalls = 0
    /\ stopCalls = <<>>
    /\ stopUnitCalls = 0
    /\ trace = <<>>

\* The next run of the launcher over the same prefix reaches setup_pfx.
NextRun ==
    /\ pc = "set_env"
    /\ runs < MaxRuns
    /\ runs' = runs + 1
    /\ pc' = "setup_pfx"
    /\ UNCHANGED <<args, environ, env, config, opts, command, subreaper, ret, exc,
                   exitStatus, refExists, localState, fs, user, protonCalls, pre, branches, listing,
                   listCalls, stopCalls, stopUnitCalls, trace>>

PfxNext ==
    \/ SetupPfx
    \/ NextRun

PfxSpec == PfxInit /\ [][PfxNext]_vars

---------------------------------------------------------------------------
(* The resolver and the command builder on every explicit input *)

ArgSeqs == UNION {[1..n -> {"-opengl", "-windowed"}] : n \in 0..MaxArgs}

\* The state main is in when parse_args and setup_ulwgl have returned.
ResolveInit ==
    /\ pc = "check_env"
    /\ args \in {[kind |-> "exe", exe |-> x, opts |-> o, verb |-> None] :
                    x \in {"", "~/game.exe"}, o \in ArgSeqs}
                \cup {[kind |-> "config", exe |-> "", opts |-> <<>>, verb |-> None]}
    /\ environ \in {Environ(g, w, p, v, sd, Unset) :
            g \in {Unset, "271590"}, w \in {Unset, "~/prefix"},
            p \in {Unset, "", "GE-Proton", "/opt/proton", "/opt/empty", "/nonexistent"},
            v \in {Unset, "run", "winecfg"}, sd \in {Unset, "1"}}
    /\ env = InitialEnv
    /\ config = NoConfig
    /\ opts = <<>>
    /\ command = <<>>
    /\ subreaper = None
    /\ ret = <<>>
    /\ exc = NoExc
    /\ exitStatus = <<>>
    /\ refExists = TRUE
    /\ localState \in {"partial", "populated"}
    /\ fs = FreshPrefix
    /\ user = "alice"
    /\ protonCalls = 0
    /\ runs = 1
    /\ pre = FreshPrefix
    /\ branches = <<>>
    /\ listing = <<>>
    /\ listCalls = 0
    /\ stopCalls = <<>>
    /\ stopUnitCalls = 0
    /\ trace = <<>>

ResolveNext ==
    \/ CheckEnv
    \/ SetEnvToml
    \/ SetupPfx
    \/ SetEnv
    \/ BuildCommand
    \/ StartChild

ResolveSpec == ResolveInit /\ [][ResolveNext]_vars

---------------------------------------------------------------------------
(* Properties of the process supervisor, checked under Spec *)

Interrupted == \E i \in DOMAIN trace :
    trace[i] \in {"KeyboardInterrupt@" \o p : p \in MainPcs \cup {"stop_unit"}}

Went(clause) == \E i \in DOMAIN trace : trace[i] = clause

\* C1: when the wrapped process runs to completion, no interrupt arrives and
\* systemctl does not fail, the launcher's exit status is the wrapped process's
\* exit code, whatever the code and whichever subreaper was chosen.
C1_ExitStatusIsChildCode ==
    (pc = "done" /\ ret # <<>> /\ ~Interrupted /\ ~Went("systemctl failed"))
        => exitStatus = ret

\* C2: whatever path the top-level block takes, ULWGL_LOCAL/.ref does not exist
\* when the launcher process has terminated.
C2_RefRemovedOnEveryExit ==
    pc = "done" => ~refExists

\* C2 witness: .ref existed, stop_unit raised inside the KeyboardInterrupt handler,
\* and the launcher has terminated.
C2_Witness ==
    /\ pc = "done"
    /\ Went("except KeyboardInterrupt")
    /\ Went("finally: unlink .ref")
    /\ exc.type = "Exception"
    /\ ~refExists

\* C3: a first interrupt that arrives while the wrapped process runs is caught by
\* the KeyboardInterrupt handler, stop_unit is invoked exactly once, and the
\* launcher terminates with a non-zero exit status.
C3_InterruptReapsOnceAndFails ==
    (pc = "done" /\ trace # <<>> /\ trace[1] = "KeyboardInterrupt@child")
        => /\ trace[2] = "except KeyboardInterrupt"
           /\ stopUnitCalls = 1
           /\ exitStatus # <<0>>

\* C3 witness: the child was interrupted, its unit was stopped, exit status 1.
C3_Witness ==
    /\ pc = "done"
    /\ trace = <<"KeyboardInterrupt@child", "except KeyboardInterrupt", "finally">>
    /\ stopUnitCalls = 1
    /\ Len(stopCalls) = 1
    /\ exitStatus = <<1>>

RunId == "ulwgl-" \o env["GAMEID"]

\* C4: with the systemd wrapper in use, one stop_unit call stops at most one
\* unit; the unit it stops is the first one of the listing whose description is
\* ulwgl-<game id>; when the listing has no such unit it stops nothing.
C4_StopsOnlyTheRunsUnit ==
    [][(subreaper = "systemd" /\ stopUnitCalls' = stopUnitCalls + 1)
        => LET new == SubSeq(stopCalls', Len(stopCalls) + 1, Len(stopCalls'))
           IN  /\ Len(new) <= 1
               /\ new # <<>> =>
                    \E i \in DOMAIN listing' :
                        /\ listing'[i].unit = new[1]
                        /\ listing'[i].description = RunId
                        /\ \A j \in 1..(i - 1) : listing'[j].description # RunId
               /\ (\A i \in DOMAIN listing' : listing'[i].description # RunId)
                    => new = <<>>]_vars

\* C4 witness: the listing held an unrelated unit and then this run's unit, and
\* only the latter was stopped.
C4_Witness ==
    /\ subreaper = "systemd"
    /\ stopUnitCalls = 1
    /\ Len(listing) = 2
    /\ listing[1].description # RunId
    /\ listing[2].description = RunId
    /\ stopCalls = <<listing[2].unit>>

\* C5: with the reaper wrapper in use (ULWGL_SYSTEMD not "1") and ULWGL_GAMESCOPE
\* not set, stop_unit lists no units, stops nothing, raises no error and leaves
\* the launcher's exit status as it would be without it.
C5_StopUnitNoOpUnderReaper ==
    (/\ subreaper = "reaper"
     /\ environ["ULWGL_SYSTEMD"] # "1"
     /\ environ["ULWGL_GAMESCOPE"] = Unset
     /\ stopUnitCalls > 0
     /\ ~Went("KeyboardInterrupt@stop_unit"))
        => /\ listCalls = 0
           /\ stopCalls = <<>>
           /\ exc.type # "Exception"
           /\ (pc = "done" /\ ret = <<0>> /\ ~Interrupted) => exitStatus = ret

\* C6: build_command applies the systemd wrapper exactly when the configuration
\* sets reaper = false or ULWGL_SYSTEMD is "1", and the reaper wrapper otherwise.
C6_SubreaperSelection ==
    subreaper # None =>
        (subreaper = "systemd" <=>
            \/ (config.present /\ config.reaper = "false")
            \/ env["ULWGL_SYSTEMD"] = "1")

---------------------------------------------------------------------------
(* Properties of the prefix reconciler, checked under PfxSpec *)

LastBranch == branches[Len(branches)]

CurrentRoot == Home \o "/prefix"

RealDir(users, n) == users[n].kind = "dir"

\* At most one identity entry is a real directory, and when one is, the other,
\* if present, is a symlink whose target is its name.
IdentityInvariant(users, u) ==
    u # SteamUser =>
        /\ ~(RealDir(users, u) /\ RealDir(users, SteamUser))
        /\ (RealDir(users, SteamUser) /\ users[u].kind # "absent")
                => users[u] = Link(SteamUser)
        /\ (RealDir(users, u) /\ users[SteamUser].kind # "absent")
                => users[SteamUser] = Link(u)

\* C7: a second setup_pfx call on the prefix a first call succeeded on also
\* succeeds, takes branch d and leaves the topology as the first call left it.
C7_SecondCallChangesNothing ==
    (runs >= 2 /\ pc # "setup_pfx")
        => /\ pc = "set_env"
           /\ LastBranch = "d"
           /\ fs = pre

\* C7 witness: the first call set up a fresh prefix, the second took branch d.
C7_Witness ==
    /\ runs = 2
    /\ pc = "set_env"
    /\ branches = <<"a", "d">>
    /\ fs = pre

\* C8 as stated: after every successful setup_pfx call, whatever the identity
\* topology was before, at most one identity entry is a real directory and the
\* other, if present, is a symlink to it.
C8_IdentityInvariantAlways ==
    pc = "set_env" => IdentityInvariant(fs.users, user)

\* C8 amended: after every successful setup_pfx call that took one of the
\* mutating branches a, b or c, at most one identity entry is a real directory
\* and, when one is, the other is a symlink to it.
C8_IdentityInvariantAfterMutation ==
    (pc = "set_env" /\ LastBranch \in {"a", "b", "c"})
        => IdentityInvariant(fs.users, user)

\* C8 witness: branch b linked steamuser to the real os-identity directory.
C8_Witness ==
    /\ pc = "set_env"
    /\ LastBranch = "b"
    /\ user # SteamUser
    /\ fs.users[user] = Dir
    /\ fs.users[SteamUser] = Link(user)

\* C9: on a prefix where neither identity entry exists, setup_pfx succeeds and
\* leaves steamuser a real directory and the os-identity entry a symlink that
\* resolves to it (or that very directory), for every OS user name.
C9_FreshPrefixForEveryUser ==
    (/\ runs = 1
     /\ pc # "setup_pfx"
     /\ pre.pfx.kind # "file"
     /\ pre.users[SteamUser] = Absent
     /\ pre.users[user] = Absent)
        => /\ pc = "set_env"
           /\ fs.users[SteamUser] = Dir
           /\ user # SteamUser => fs.users[user] = Link(SteamUser)

\* C10 as stated: after every successful setup_pfx call, whatever pfx was
\* before, pfx is a symlink to the current prefix root.
C10_PfxAlwaysLinksToRoot ==
    pc = "set_env" => fs.pfx = Link(CurrentRoot)

\* C10 amended: after every successful setup_pfx call pfx is a symlink to the
\* current prefix root when it was absent or a symlink (to any target) before,
\* and is left a real directory when it was a real directory before.
C10_PfxLinksToRootUnlessRealDir ==
    pc = "set_env" =>
        IF pre.pfx.kind = "dir" THEN fs.pfx = Dir ELSE fs.pfx = Link(CurrentRoot)

\* C10 witness: pfx pointed to the former location of the prefix and now points
\* to the current root.
C10_Witness ==
    /\ pc = "set_env"
    /\ pre.pfx = Link("/mnt/old/prefix")
    /\ fs.pfx = Link(CurrentRoot)

\* The three mutating cases of the identity topology, with "directory" meaning a
\* real directory and never a symlink to one.
CaseFresh(users, u) ==
    /\ users[u].kind \notin {"dir", "link"}
    /\ users[SteamUser].kind \notin {"dir", "link"}

CaseUserDir(users, u) ==
    /\ users[u].kind = "dir"
    /\ users[SteamUser].kind \notin {"dir", "link"}

CaseSteamDir(users, u) ==
    /\ users[u].kind = "absent"
    /\ users[SteamUser].kind = "dir"

\* C11: from an identity topology that is none of the three mutating cases (no
\* entry a directory or symlink; a real os-identity directory with steamuser no
\* directory and no symlink; os-identity absent with a real steamuser directory)
\* setup_pfx raises no error and leaves both identity entries as they were.
C11_OtherTopologiesUntouched ==
    (/\ pc # "setup_pfx"
     /\ pre.pfx.kind # "file"
     /\ ~CaseFresh(pre.users, user)
     /\ ~CaseUserDir(pre.users, user)
     /\ ~CaseSteamDir(pre.users, user))
        => /\ pc = "set_env"
           /\ fs.users[user] = pre.users[user]
           /\ fs.users[SteamUser] = pre.users[SteamUser]

\* C12: from a prefix whose os-identity entry is a real directory and whose
\* steamuser entry is neither a directory nor a symlink, setup_pfx succeeds,
\* steamuser is a symlink whose target is the os-identity name, and the
\* os-identity entry is still a real directory.
C12_SteamUserLinksToUserDir ==
    (/\ pc # "setup_pfx"
     /\ pre.pfx.kind # "file"
     /\ CaseUserDir(pre.users, user))
        => /\ pc = "set_env"
           /\ LastBranch = "b"
           /\ fs.users[SteamUser] = Link(user)
           /\ fs.users[user] = Dir

\* C12 witness: a stale steamuser file was replaced by the symlink to the
\* os-identity directory.
C12_Witness ==
    /\ pc = "set_env"
    /\ pre.users[user] = Dir
    /\ pre.users[SteamUser] = File
    /\ fs.users[SteamUser] = Link(user)
    /\ fs.users[user] = Dir

---------------------------------------------------------------------------
(* Properties of the command builder and the resolver, checked under ResolveSpec *)

EntryPointIsFile == localState = "populated"

ProtonIsFile == env["PROTONPATH"] \in ProtonDirs

\* C13: build_command fails with EntryPointNotFound when the entry point is
\* missing, whether or not the proton binary is there, with RuntimeBinaryNotFound
\* only when the entry point is there and the proton binary is not, and succeeds
\* otherwise; a failure leaves the command empty and no wrapper applied, and no
\* process is started after it.
C13_BuildChecksEntryPointFirst ==
    /\ [][pc = "build_command" =>
            IF ~EntryPointIsFile
            THEN /\ exc' = EntryPointNotFound
                 /\ pc' = "except"
                 /\ command' = <<>>
                 /\ subreaper' = None
            ELSE IF ~ProtonIsFile
            THEN /\ exc' = RuntimeBinaryNotFound
                 /\ pc' = "except"
                 /\ command' = <<>>
                 /\ subreaper' = None
            ELSE /\ exc' = NoExc
                 /\ pc' = "run"]_vars
    /\ [](exc \in {EntryPointNotFound, RuntimeBinaryNotFound}
            => (pc = "except" /\ command = <<>> /\ subreaper = None /\ ret = <<>>))

\* C13 witness: both files are missing and the error is the entry point's.
C13_Witness ==
    /\ pc = "except"
    /\ ~EntryPointIsFile
    /\ ~ProtonIsFile
    /\ exc = EntryPointNotFound
    /\ command = <<>>

Wrapper ==
    IF subreaper = "systemd" THEN enable_systemd(env, <<>>)
    ELSE enable_reaper(env, <<>>, ULWGL_LOCAL)

PassThrough == IF args.kind = "exe" THEN args.opts ELSE opts

\* C14: after a successful build_command call the command is the chosen
\* wrapper's elements, then the entry point, "--verb", the resolved verb, "--",
\* the proton binary of the compat tool, the verb again, the executable, and
\* then the passthrough options as they were given, in their order.
C14_CommandLayout ==
    pc \in {"run", "child"} =>
        /\ Wrapper # <<>>
        /\ env["PROTON_VERB"] \in PROTON_VERBS
        /\ command = Wrapper
                \o <<ULWGL_LOCAL \o "/ULWGL", "--verb", env["PROTON_VERB"], "--",
                      env["PROTONPATH"] \o "/proton", env["PROTON_VERB"], env["EXE"]>>
                \o PassThrough

\* C14 witness: two different options after the executable, under systemd-run,
\* with the verb taken from PROTON_VERB.
C14_Witness ==
    /\ pc = "run"
    /\ subreaper = "systemd"
    /\ env["PROTON_VERB"] = "run"
    /\ Len(args.opts) = 2
    /\ args.opts[1] # args.opts[2]
    /\ SubSeq(command, Len(command) - 2, Len(command))
            = <<Home \o "/game.exe", args.opts[1], args.opts[2]>>

\* C15: check_env rewrites a PROTONPATH that names a directory of the
\* compatibility-tools cache to the path in the cache, keeps any other
\* PROTONPATH that is an existing directory, and in every other case (unset,
\* empty, no existing directory) calls get_ulwgl_proton and fails with
\* RuntimeNotFound exactly when PROTONPATH is empty after the call.
C15_ResolutionPriority ==
    [][(pc = "check_env" /\ args.kind = "exe" /\ environ["GAMEID"] # Unset) =>
        LET p == environ["PROTONPATH"]
        IN  IF p \in CacheNames
            THEN /\ environ'["PROTONPATH"] = STEAM_COMPAT \o "/" \o p
                 /\ env'["PROTONPATH"] = STEAM_COMPAT \o "/" \o p
                 /\ protonCalls' = protonCalls
                 /\ pc' = "setup_pfx"
            ELSE IF p \in Dirs
            THEN /\ environ'["PROTONPATH"] = p
                 /\ env'["PROTONPATH"] = p
                 /\ protonCalls' = protonCalls
                 /\ pc' = "setup_pfx"
            ELSE /\ protonCalls' = protonCalls + 1
                 /\ exc' = RuntimeNotFound <=> environ'["PROTONPATH"] = ""
                 /\ exc' # RuntimeNotFound => pc' = "setup_pfx"]_vars

====
